---- MODULE Spec2Model ----
(***************************************************************************)
(* Model of the Texas-Weather scheduled runner                             *)
(* (src/automated_weather_pipeline.py): the retry loop of                  *)
(* run_pipeline_with_retry, scheduled_job, the schedule registered by      *)
(* setup_schedule and polled by main, the one-shot mode run_once, and the  *)
(* operator interrupt (KeyboardInterrupt) handled by main.                 *)
(*                                                                         *)
(* Time is counted in minutes.  The log is modelled as the entries written *)
(* since the current occasion (or call) began; each entry is               *)
(* <<tag, attempt, minute>>, the minute standing for %(asctime)s.          *)
(***************************************************************************)
EXTENDS Integers, Sequences, FiniteSets, TLC

\* ------------------------------------------------------------------------
\* Program constants (class AutomationConfig and literals of main)
\* ------------------------------------------------------------------------
RUN_INTERVAL_HOURS == 3
RETRY_DELAY_MINUTES == 5
PollSeconds == 60

\* ------------------------------------------------------------------------
\* Bounds of the model
\* ------------------------------------------------------------------------
\* MAX_RETRIES is 3 in the source; the model draws it from 1..MaxRetriesBound
MaxRetriesBound == 3
\* the poll loop of main is followed up to this minute
MaxTime == 182
\* occasions (startup one included) started in one run of main
MaxOccasions == 2
\* the two durations, in minutes, a pipeline invocation may take
FastRun == 1
SlowRun == 100

PipelineMinutes == {FastRun, SlowRun}

\* What pipeline.run() may do: return a result holding the fields the summary
\* reads ("ok"), return a truthy result lacking them ("bad"), return nothing
\* or a falsy value ("empty"), or raise an Exception ("raise").
RunOutcomes == {"ok", "bad", "empty", "raise"}

VARIABLES
    mode,         \* "main" or "run_once": the entry point chosen under __main__
    max_retries,  \* AutomationConfig.MAX_RETRIES
    pc,           \* position of the single thread of control
    in_try,       \* TRUE once main has entered its try block (line 188)
    attempt,      \* loop variable of run_pipeline_with_retry (0: no call)
    invoked,      \* pipeline invocations started in the current call
    outcomes,     \* outcome of each finished attempt of the current call
    slept,        \* seconds of each time.sleep made by the current call
    ret,          \* "none", "True" or "False": value returned by the call
    log,          \* log entries written since the occasion/call began
    inFlight,     \* pipeline invocations started and not yet ended
    now,          \* wall clock, minutes since the process started
    next_run,     \* next_run of the registered job (-1: no job registered)
    occasions,    \* occasions started so far
    exitCode,     \* -1: process alive or ended without sys.exit
    escaped,      \* error that left main uncaught: "none", "Exception",
                  \* "KeyboardInterrupt"
    last_occasion \* <<start, end>> minutes of the latest occasion that
                  \* returned (<<-1, -1>>: none yet)

runnerVars == <<mode, max_retries, pc, in_try, attempt, invoked, outcomes,
                slept, ret, log, inFlight, now, next_run, occasions, exitCode,
                escaped, last_occasion>>

\* Dashboard process (src/weather_dashboard.py) and the store it reads
VARIABLES
    forecast_data,    \* relation forecast_data of the store: a set of rows
    alerts_data,      \* relation alerts_data: [exists, rows]
    version,          \* number of pipeline writes the store has received
    cache_forecast,   \* st.cache_data entry of load_forecast_data
    cache_alerts,     \* st.cache_data entry of load_alerts_data
    df,               \* forecast dataframe of the latest render pass
    alerts_df,        \* alerts dataframe of the latest render pass
    banner,           \* what the alert banner of the latest pass showed
    sel,              \* sidebar selection of the latest pass
    filtered_df,      \* filtered_df of the latest pass
    error_shown,      \* the pass ended in the inline error message
    reads,            \* how the latest pass obtained its two dataframes
    passes,           \* render passes made so far
    wrote_since_pass, \* a pipeline write happened after the latest pass
    display,          \* the data table of the latest pass and its two options
    csv               \* the text handed to the download button by the latest pass

dashVars == <<forecast_data, alerts_data, version, cache_forecast,
              cache_alerts, df, alerts_df, banner, sel, filtered_df,
              error_shown, reads, passes, wrote_since_pass, display, csv>>

\* every runner variable but the clock, which both processes read
runnerRest == <<mode, max_retries, pc, in_try, attempt, invoked, outcomes,
                slept, ret, log, inFlight, next_run, occasions, exitCode,
                escaped, last_occasion>>

vars == <<runnerVars, dashVars>>

callVars == <<attempt, invoked, outcomes, slept, ret>>

\* ------------------------------------------------------------------------
\* Helpers translated from the code's expressions
\* ------------------------------------------------------------------------
Entry(tag) == <<tag, attempt, now>>

Write(l, tag) == Append(l, Entry(tag))

\* `if result:` (line 96): the truthiness of what run() returned
IsResult(r) == r \in {"ok", "bad"}

\* variant: the summary raises on every result
SummaryRaisesAlways(r) == TRUE

\* The summary (lines 98-100) indexes result['execution_time'] and
\* result['data'][...]: it raises on a result lacking them.
SummaryRaises(r) == r = "bad"

\* variant: the summary is written after the try block
InTrySummaryOutside(site) == site \in {"ctor", "run"}

\* try block of the loop body (lines 87-101): the sites whose Exception is
\* caught by `except Exception` (line 105)
InTry(site) == site \in {"ctor", "run", "summary"}

\* variant: the range runs one iteration too far
LoopContinuesOffByOne(a, m) == a + 1 < m + 2

\* for attempt in range(1, MAX_RETRIES + 1) (line 86): another iteration follows
LoopContinues(a, m) == a + 1 < m + 1

\* variant: the handler gives up one attempt early
RetryAllowedGivesUpEarly(a, m) == a < m - 1

\* if attempt < AutomationConfig.MAX_RETRIES (line 108)
RetryAllowed(a, m) == a < m

\* wait_seconds = AutomationConfig.RETRY_DELAY_MINUTES * 60 (line 109)
WaitSeconds == RETRY_DELAY_MINUTES * 60

\* variant: run() is started in the background and not waited for
AfterReturnNotJoined(n) == n

\* result = pipeline.run() is a synchronous call (line 94): when control is
\* back, the invocation is over
AfterReturn(n) == n - 1

\* variant: the exit status ignores the outcome
ExitStatusAlwaysZero(success) == 0

\* sys.exit(0 if success else 1) (line 207)
ExitStatus(success) == IF success THEN 0 ELSE 1

\* try/except KeyboardInterrupt of main (lines 188-196) covers the poll loop only
InterruptHandled(t) == t

\* position in the log of the trigger banner of the current occasion
TriggerIndex(l) == CHOOSE i \in DOMAIN l : l[i][1] = "triggered"

\* schedule.every(RUN_INTERVAL_HOURS).hours: next_run = now + interval
NextRunAfter(t) == t + RUN_INTERVAL_HOURS * 60

\* schedule.run_pending: a job is run when its next_run has been reached
ShouldRun(t, nr) == nr >= 0 /\ t >= nr

\* ------------------------------------------------------------------------
\* Initial state: the module is loaded, nothing has run
\* ------------------------------------------------------------------------
NoEntry == [has |-> FALSE, rows |-> {}, at |-> 0, ver |-> 0, how |-> "none"]

NoEntrySeq == [has |-> FALSE, rows |-> <<>>, at |-> 0, ver |-> 0, how |-> "none"]

NoBanner == [tornado |-> <<>>, thunderstorm |-> <<>>, other_severe |-> <<>>,
             moderate |-> <<>>, messages |-> {}]

NoDisplay == [show_all_columns |-> FALSE, rows_to_show |-> 0, rows |-> <<>>]

NoSel == [city |-> "All", dates |-> <<>>, temps |-> <<0, 0>>]

NoReads == [at |-> 0,
            f_cached |-> FALSE, f_how |-> "none", f_ver |-> 0, f_at |-> 0,
            a_cached |-> FALSE, a_how |-> "none", a_ver |-> 0, a_at |-> 0,
            repeat |-> FALSE]

\* the dashboard has not rendered and the store is not looked at
DashIdle ==
    /\ forecast_data = {}
    /\ alerts_data = [exists |-> FALSE, rows |-> <<>>]
    /\ version = 0
    /\ cache_forecast = NoEntry
    /\ cache_alerts = NoEntrySeq
    /\ df = {}
    /\ alerts_df = <<>>
    /\ banner = NoBanner
    /\ sel = NoSel
    /\ filtered_df = {}
    /\ error_shown = FALSE
    /\ reads = NoReads
    /\ passes = 0
    /\ wrote_since_pass = FALSE
    /\ display = NoDisplay
    /\ csv = <<>>

Init ==
    /\ DashIdle
    /\ mode \in {"main", "run_once"}
    /\ max_retries \in 1..MaxRetriesBound
    /\ pc = "init"
    /\ in_try = FALSE
    /\ attempt = 0
    /\ invoked = 0
    /\ outcomes = <<>>
    /\ slept = <<>>
    /\ ret = "none"
    /\ log = <<>>
    /\ inFlight = 0
    /\ now = 0
    /\ next_run = -1
    /\ occasions = 0
    /\ exitCode = -1
    /\ escaped = "none"
    /\ last_occasion = <<-1, -1>>

\* ------------------------------------------------------------------------
\* main(): banner, setup_schedule(), then the startup occasion
\* ------------------------------------------------------------------------
MainStart ==
    /\ pc = "init"
    /\ mode = "main"
    /\ next_run' = NextRunAfter(now)
    /\ log' = Write(Write(log, "automation_started"), "schedule_configured")
    /\ pc' = "job"
    /\ UNCHANGED <<mode, max_retries, in_try, callVars, inFlight, now,
                   occasions, exitCode,
                   escaped>>
    /\ UNCHANGED <<last_occasion, dashVars>>

\* run_once(): logs, then calls run_pipeline_with_retry
RunOnceStart ==
    /\ pc = "init"
    /\ mode = "run_once"
    /\ log' = Write(log, "run_once")
    /\ attempt' = 1
    /\ pc' = "attempt"
    /\ UNCHANGED <<mode, max_retries, in_try, invoked, outcomes, slept, ret,
                   inFlight, now, next_run, occasions, exitCode,
                   escaped>>
    /\ UNCHANGED <<last_occasion, dashVars>>

\* scheduled_job(): trigger banner, then the call of run_pipeline_with_retry
ScheduledJobBegin ==
    /\ pc = "job"
    /\ log' = Write(log, "triggered")
    /\ attempt' = 1
    /\ occasions' = occasions + 1
    /\ pc' = "attempt"
    /\ UNCHANGED <<mode, max_retries, in_try, invoked, outcomes, slept, ret,
                   inFlight, now, next_run, exitCode,
                   escaped>>
    /\ UNCHANGED <<last_occasion, dashVars>>

\* Leaving the loop body after a failure that did not go through the handler
\* (the else branch, line 103): next iteration, or `return False` (line 116)
FallThrough(l) ==
    IF LoopContinues(attempt, max_retries)
    THEN /\ attempt' = attempt + 1
         /\ ret' = ret
         /\ pc' = "attempt"
         /\ log' = l
    ELSE /\ attempt' = attempt
         /\ ret' = "False"
         /\ pc' = "returned"
         /\ log' = l

\* An Exception raised at `site` of the loop body: handled by the except
\* clause when the site is inside the try block, propagated otherwise
Raise(site, l) ==
    /\ log' = l
    /\ pc' = IF InTry(site) THEN "except" ELSE "crashed"
    /\ escaped' = IF InTry(site) THEN escaped ELSE "Exception"
    /\ UNCHANGED <<attempt, ret>>

\* Top of the loop body (lines 88-94): log the attempt, construct the
\* pipeline (which may raise) and call run()
BeginAttempt ==
    /\ pc = "attempt"
    /\ invoked' = invoked + 1
    /\ \E ctor_raises \in BOOLEAN :
         IF ctor_raises
         THEN /\ Raise("ctor", Write(log, "start"))
              /\ outcomes' = Append(outcomes, "ctor_raise")
              /\ inFlight' = inFlight
         ELSE /\ log' = Write(log, "start")
              /\ pc' = "running"
              /\ inFlight' = inFlight + 1
              /\ UNCHANGED <<attempt, ret, outcomes, escaped>>
    /\ UNCHANGED <<mode, max_retries, in_try, slept, now, next_run,
                   occasions, exitCode>>
    /\ UNCHANGED <<last_occasion, dashVars>>

\* pipeline.run() ends after d minutes (lines 94-103)
PipelineReturns ==
    /\ pc = "running"
    /\ inFlight' = AfterReturn(inFlight)
    /\ \E d \in PipelineMinutes, r \in RunOutcomes :
         /\ now' = now + d
         /\ outcomes' = Append(outcomes, r)
         /\ LET at(tag) == <<tag, attempt, now + d>>
            IN  IF r = "raise"
                THEN Raise("run", log)
                ELSE IF IsResult(r)
                THEN IF SummaryRaises(r)
                     THEN Raise("summary", Append(log, at("success")))
                     ELSE /\ log' = Append(Append(log, at("success")), at("summary"))
                          /\ ret' = "True"
                          /\ pc' = "returned"
                          /\ UNCHANGED <<attempt, escaped>>
                ELSE /\ FallThrough(Append(log, at("no_result")))
                     /\ UNCHANGED escaped
    /\ UNCHANGED <<mode, max_retries, in_try, invoked, slept, next_run,
                   occasions, exitCode>>
    /\ UNCHANGED <<last_occasion, dashVars>>

\* except Exception (lines 105-114)
Except ==
    /\ pc = "except"
    /\ IF RetryAllowed(attempt, max_retries)
       THEN /\ log' = Write(Write(log, "failed"), "retrying")
            /\ pc' = "sleeping"
            /\ ret' = ret
       ELSE /\ log' = Write(Write(log, "failed"), "exhausted")
            /\ pc' = "returned"
            /\ ret' = "False"
    /\ UNCHANGED <<mode, max_retries, in_try, attempt, invoked, outcomes,
                   slept, inFlight, now, next_run, occasions, exitCode,
                   escaped>>
    /\ UNCHANGED <<last_occasion, dashVars>>

\* time.sleep(wait_seconds) ends (line 111); the loop goes to its next
\* iteration, or to `return False` (line 116) when there is none
SleepEnds ==
    /\ pc = "sleeping"
    /\ slept' = Append(slept, WaitSeconds)
    /\ now' = now + (WaitSeconds \div 60)
    /\ FallThrough(log)
    /\ UNCHANGED <<mode, max_retries, in_try, invoked, outcomes, inFlight,
                   next_run, occasions, exitCode, escaped>>
    /\ UNCHANGED <<last_occasion, dashVars>>

\* scheduled_job after the call returned (lines 131-134)
ScheduledJobEnd ==
    /\ pc = "returned"
    /\ mode = "main"
    /\ log' = Write(log, IF ret = "True" THEN "job_ok" ELSE "job_failed")
    /\ pc' = "job_done"
    /\ UNCHANGED <<mode, max_retries, in_try, callVars, inFlight, now,
                   next_run, occasions, exitCode,
                   escaped>>
    /\ UNCHANGED <<last_occasion, dashVars>>

\* scheduled_job returns.  The startup occasion returns to main, which enters
\* its try block and the poll loop (lines 186-190); a scheduled occasion
\* returns to schedule's Job.run, which computes the next run from the current
\* time, and then to the time.sleep(60) of the loop.
OccasionReturn ==
    /\ pc = "job_done"
    /\ IF in_try
       THEN /\ next_run' = NextRunAfter(now)
            /\ pc' = "poll_sleep"
            /\ in_try' = in_try
       ELSE /\ next_run' = next_run
            /\ pc' = "poll"
            /\ in_try' = TRUE
    /\ attempt' = 0
    /\ invoked' = 0
    /\ outcomes' = <<>>
    /\ slept' = <<>>
    /\ ret' = "none"
    /\ log' = <<>>
    /\ UNCHANGED <<mode, max_retries, inFlight, now, occasions, exitCode,
                   escaped>>
    /\ last_occasion' = <<log[TriggerIndex(log)][3], now>>
    /\ UNCHANGED dashVars

\* run_once after the call returned (line 207)
RunOnceExit ==
    /\ pc = "returned"
    /\ mode = "run_once"
    /\ exitCode' = ExitStatus(ret = "True")
    /\ pc' = "exited"
    /\ UNCHANGED <<mode, max_retries, in_try, callVars, log, inFlight, now,
                   next_run, occasions,
                   escaped>>
    /\ UNCHANGED <<last_occasion, dashVars>>

\* schedule.run_pending() (line 190)
RunPending ==
    /\ pc = "poll"
    /\ IF ShouldRun(now, next_run)
       THEN /\ occasions < MaxOccasions
            /\ pc' = "job"
       ELSE pc' = "poll_sleep"
    /\ UNCHANGED <<mode, max_retries, in_try, callVars, log, inFlight, now,
                   next_run, occasions, exitCode,
                   escaped>>
    /\ UNCHANGED <<last_occasion, dashVars>>

\* time.sleep(60) (line 191)
PollSleep ==
    /\ pc = "poll_sleep"
    /\ now < MaxTime
    /\ now' = now + (PollSeconds \div 60)
    /\ pc' = "poll"
    /\ UNCHANGED <<mode, max_retries, in_try, callVars, log, inFlight,
                   next_run, occasions, exitCode,
                   escaped>>
    /\ UNCHANGED <<last_occasion, dashVars>>

\* The operator interrupt: KeyboardInterrupt raised wherever main currently
\* is.  It is no Exception, so the handler of run_pipeline_with_retry lets it
\* through; main catches it only inside its try block (lines 188-196).
Interrupt ==
    /\ mode = "main"
    /\ pc \notin {"init", "stopped", "crashed"}
    /\ inFlight' = 0
    /\ IF InterruptHandled(in_try)
       THEN /\ log' = Write(log, "stopped")
            /\ pc' = "stopped"
            /\ escaped' = escaped
       ELSE /\ log' = log
            /\ pc' = "crashed"
            /\ escaped' = "KeyboardInterrupt"
    /\ UNCHANGED <<mode, max_retries, in_try, callVars, now, next_run,
                   occasions, exitCode>>
    /\ UNCHANGED <<last_occasion, dashVars>>

\* Steps of the program itself
Step ==
    \/ MainStart
    \/ RunOnceStart
    \/ ScheduledJobBegin
    \/ BeginAttempt
    \/ PipelineReturns
    \/ Except
    \/ SleepEnds
    \/ ScheduledJobEnd
    \/ OccasionReturn
    \/ RunOnceExit
    \/ RunPending
    \/ PollSleep

Next ==
    \/ MainStart
    \/ RunOnceStart
    \/ ScheduledJobBegin
    \/ BeginAttempt
    \/ PipelineReturns
    \/ Except
    \/ SleepEnds
    \/ ScheduledJobEnd
    \/ OccasionReturn
    \/ RunOnceExit
    \/ RunPending
    \/ PollSleep
    \/ Interrupt

Spec == Init /\ [][Next]_vars

\* Every pipeline invocation and every sleep ends, and the program takes its
\* next step whenever it has one.
LiveSpec == Spec /\ WF_vars(Step)

TypeOK ==
    /\ mode \in {"main", "run_once"}
    /\ max_retries \in 1..(MaxRetriesBound + 1)
    /\ pc \in {"init", "job", "attempt", "running", "except", "sleeping",
               "returned", "job_done", "poll", "poll_sleep", "stopped",
               "crashed", "exited"}
    /\ in_try \in BOOLEAN
    /\ attempt \in Nat
    /\ invoked \in Nat
    /\ ret \in {"none", "True", "False"}
    /\ inFlight \in Nat
    /\ now \in Nat
    /\ exitCode \in {-1, 0, 1}
    /\ escaped \in {"none", "Exception", "KeyboardInterrupt"}
    /\ last_occasion \in (Nat \cup {-1}) \X (Nat \cup {-1})

\* ------------------------------------------------------------------------
\* Vocabulary of the properties
\* ------------------------------------------------------------------------
\* the call of run_pipeline_with_retry has returned and its record is intact
CallReturned == pc \in {"returned", "job_done", "exited"}

\* an occasion of scheduled_job is between its trigger banner and its
\* success/failure banner
OccasionRunning ==
    mode = "main" /\ pc \in {"attempt", "running", "except", "sleeping", "returned"}

Tags(l) == {l[i][1] : i \in DOMAIN l}

NoOutcomeOk == \A i \in DOMAIN outcomes : outcomes[i] # "ok"

\* ------------------------------------------------------------------------
\* C1 (as stated): when the first N-1 attempts fail, by raising or by
\* returning no result, and attempt N returns a result, the call returns
\* success after exactly N invocations and exactly N-1 sleeps of
\* RETRY_DELAY_MINUTES minutes each.
\* ------------------------------------------------------------------------
C1_SucceedsOnLastAttempt ==
    ( /\ pc = "returned"
      /\ Len(outcomes) = max_retries
      /\ \A i \in 1..(max_retries - 1) : outcomes[i] \in {"ctor_raise", "raise", "empty"}
      /\ outcomes[max_retries] = "ok" )
    => /\ ret = "True"
       /\ invoked = max_retries
       /\ Len(slept) = max_retries - 1
       /\ \A i \in DOMAIN slept : slept[i] = RETRY_DELAY_MINUTES * 60

\* ------------------------------------------------------------------------
\* C2: a call never makes more than N pipeline invocations, and a call in
\* which no invocation succeeded returns failure after exactly N of them.
\* ------------------------------------------------------------------------
C2_AlwaysFailing ==
    /\ invoked <= max_retries
    /\ (CallReturned /\ NoOutcomeOk)
         => (ret = "False" /\ invoked = max_retries /\ Len(outcomes) = max_retries)

C2_Witness ==
    /\ pc = "returned"
    /\ ret = "False"
    /\ max_retries = 3
    /\ outcomes = <<"raise", "empty", "ctor_raise">>

\* ------------------------------------------------------------------------
\* C3: every occasion started by scheduled_job ends (unless the operator
\* interrupts it) with the success banner after a successful invocation, or
\* with the failure banner after MAX_RETRIES failed attempts; none ends as
\* failed with fewer attempts.
\* ------------------------------------------------------------------------
C3_BannerOk ==
    (pc = "job_done" /\ ret = "True")
      => /\ outcomes[Len(outcomes)] = "ok"
         /\ log[Len(log)][1] = "job_ok"

C3_BannerFailed ==
    (pc = "job_done" /\ ret # "True")
      => /\ ret = "False"
         /\ invoked = max_retries
         /\ Len(outcomes) = max_retries
         /\ NoOutcomeOk
         /\ log[Len(log)][1] = "job_failed"

C3_OccasionEnds ==
    /\ [](C3_BannerOk /\ C3_BannerFailed)
    /\ [](pc = "returned" /\ ret = "False" => invoked = max_retries)
    /\ (OccasionRunning ~> (pc = "job_done" \/ escaped = "KeyboardInterrupt" \/ pc = "stopped"))

C3_Witness ==
    /\ pc = "job_done"
    /\ in_try
    /\ ret = "False"
    /\ max_retries = 3
    /\ "empty" \in {outcomes[i] : i \in DOMAIN outcomes}

\* ------------------------------------------------------------------------
\* C4: no Exception leaves run_pipeline_with_retry, whichever way an attempt
\* fails: the call ends by returning a boolean and the callers never see a
\* raised error.
\* ------------------------------------------------------------------------
C4_NoExceptionEscapes ==
    /\ escaped # "Exception"
    /\ CallReturned => ret \in {"True", "False"}
    /\ (pc = "crashed") => escaped = "KeyboardInterrupt"
    /\ (mode = "run_once") => pc # "crashed"

C4_Witness ==
    /\ pc = "returned"
    /\ ret = "False"
    /\ outcomes = <<"bad", "ctor_raise", "empty">>

\* ------------------------------------------------------------------------
\* C5 (as stated): whenever run() returns a result on attempt k, the call
\* returns success, with no further invocation and no sleep after it.
\* ------------------------------------------------------------------------
C5_ResultEndsCall ==
    \A k \in DOMAIN outcomes :
        IsResult(outcomes[k])
          => /\ invoked = k
             /\ pc \notin {"except", "sleeping", "attempt", "running"}
             /\ CallReturned => ret = "True"

\* ------------------------------------------------------------------------
\* C6 (as stated): attempt k+1 of a call starts no sooner than
\* RETRY_DELAY_MINUTES minutes after anything logged for attempt k, however
\* attempt k failed.
\* ------------------------------------------------------------------------
C6_DelayBetweenAttempts ==
    \A i \in DOMAIN log :
        (log[i][1] = "start" /\ log[i][2] > 1)
          => \A j \in 1..(i - 1) :
                 (log[j][2] = log[i][2] - 1)
                   => log[j][3] + RETRY_DELAY_MINUTES <= log[i][3]

\* ------------------------------------------------------------------------
\* C7 (as stated): the log holds an entry for every attempt started, a
\* success entry whenever the call returned success and an exhaustion entry
\* whenever it returned failure.
\* ------------------------------------------------------------------------
C7_LogComplete ==
    /\ Cardinality({i \in DOMAIN log : log[i][1] = "start"}) = invoked
    /\ (CallReturned /\ ret = "True") => "success" \in Tags(log)
    /\ (CallReturned /\ ret = "False") => "exhausted" \in Tags(log)

C9_BannerOnInterrupt ==
    (pc = "stopped" \/ escaped = "KeyboardInterrupt")
      => /\ Len(log) > 0
         /\ log[Len(log)][1] = "stopped"

\* ------------------------------------------------------------------------
\* C10: at most one pipeline invocation is in flight, it is the one the
\* single thread is waiting for, and the schedule is only checked when no
\* occasion, call or invocation is in progress.
\* ------------------------------------------------------------------------
C10_OneInFlight ==
    /\ inFlight \in {0, 1}
    /\ (inFlight = 1) => pc = "running"
    /\ (pc \in {"poll", "poll_sleep"})
         => (inFlight = 0 /\ attempt = 0 /\ invoked = 0 /\ ret = "none")

C10_Witness ==
    /\ pc = "running"
    /\ in_try
    /\ invoked = 2
    /\ inFlight = 1

\* ------------------------------------------------------------------------
\* C11 (as stated): an occasion that ran longer than the schedule interval,
\* the startup occasion included, is not followed by another occasion at the
\* first poll after it: the next occasion starts no sooner than one interval
\* after the slow one ended.
\* ------------------------------------------------------------------------
C11_NoBackToBack ==
    ( /\ pc = "job"
      /\ occasions >= 1
      /\ last_occasion[2] - last_occasion[1] > RUN_INTERVAL_HOURS * 60 )
    => now >= last_occasion[2] + RUN_INTERVAL_HOURS * 60

\* ========================================================================
\* Dashboard (src/weather_dashboard.py)
\*
\* A render pass is one run of the script.  Alert rows are records
\* [event, severity, extracted_at]; an event label is the sequence of its
\* words (<<>>: no label), so that containment and letter case are modelled
\* by what str.contains does.  Times are minutes on the clock `now`.
\* ========================================================================

\* ------------------------------------------------------------------------
\* Program constants of the dashboard
\* ------------------------------------------------------------------------
\* (datetime.now() - extracted_at).total_seconds() < 86400 (line 203)
RecentSeconds == 86400
\* @st.cache_data(ttl=600) on load_forecast_data (line 80)
ForecastTtl == 600
\* @st.cache_data(ttl=300) on load_alerts_data (line 89)
AlertsTtl == 300

\* ------------------------------------------------------------------------
\* Bounds of the dashboard inputs
\* ------------------------------------------------------------------------
\* rows of an alerts dataframe
MaxAlerts == 2
\* the later of the two extraction times, in minutes (the other is 0)
LaterExtract == 1380
\* dates of the forecast table are 1..MaxDate
MaxDate == 3

EventLabels ==
    { <<"Tornado", "Warning">>, <<"Tornado", "Watch">>, <<"tornado", "warning">>,
      <<"Severe", "Thunderstorm", "Warning">>, <<"Flood", "Watch">>, <<>> }

Severities == {"Extreme", "Severe", "Moderate", "Minor", "Unknown"}

ExtractTimes == {0, LaterExtract}

AlertRows == [event : EventLabels, severity : Severities, extracted_at : ExtractTimes]

\* ORDER BY extracted_at DESC (line 93)
SortedDesc(f) == \A i \in 1..(Len(f) - 1) : f[i].extracted_at >= f[i + 1].extracted_at

AlertFrames ==
    UNION { {f \in [1..n -> AlertRows] : SortedDesc(f)} : n \in 0..MaxAlerts }

\* the times at which the banner is rendered: just inside, at and past the
\* 24-hour limit of either extraction time
RenderTimes ==
    { LaterExtract + 60, 1439, 1440, LaterExtract + 420,
      LaterExtract + 1439, LaterExtract + 1440 }

\* ------------------------------------------------------------------------
\* The alert banner (lines 199-263)
\* ------------------------------------------------------------------------
Lower(w) ==
    CASE w = "Tornado" -> "tornado"
      [] w = "Warning" -> "warning"
      [] w = "Severe" -> "severe"
      [] w = "Thunderstorm" -> "thunderstorm"
      [] w = "Flood" -> "flood"
      [] w = "Watch" -> "watch"
      [] OTHER -> w

\* Series.str.contains(pat, case=False, na=False): the label holds the words
\* of pat in a row, letter case ignored; a missing label gives False
Contains(event, pat) ==
    \E i \in 0..(Len(event) - Len(pat)) :
        \A j \in 1..Len(pat) : Lower(event[i + j]) = Lower(pat[j])

\* variant: the limit is compared with <=
IsRecentInclusive(r, t) == (t - r.extracted_at) * 60 <= RecentSeconds

\* (datetime.now() - alerts_df['extracted_at']).dt.total_seconds() < 86400
IsRecent(r, t) == (t - r.extracted_at) * 60 < RecentSeconds

\* line 209
IsTornado(r) == Contains(r.event, <<"Tornado">>)

\* line 225
IsThunderstorm(r) == Contains(r.event, <<"Severe", "Thunderstorm">>)

\* variant: the exclusion of the two named tiers is left out
IsOtherSevereNoExclusion(r) == r.severity \in {"Extreme", "Severe"}

\* lines 240-243: ~contains('Tornado|Severe Thunderstorm') & isin(...)
IsOtherSevere(r) ==
    /\ ~(Contains(r.event, <<"Tornado">>) \/ Contains(r.event, <<"Severe", "Thunderstorm">>))
    /\ r.severity \in {"Extreme", "Severe"}

\* lines 255-257
IsModerate(r) == r.severity \in {"Moderate", "Minor"}

\* What the banner section shows for the dataframe adf at time t: the four
\* tiers and the set of messages displayed
Banner(adf, t) ==
    IF Len(adf) > 0
    THEN LET rec(r) == IsRecent(r, t)
             recent_alerts == SelectSeq(adf, rec)
             tornado_alerts == SelectSeq(recent_alerts, IsTornado)
             thunderstorm_alerts == SelectSeq(recent_alerts, IsThunderstorm)
             other_severe_alerts == SelectSeq(recent_alerts, IsOtherSevere)
             moderate_alerts == SelectSeq(recent_alerts, IsModerate)
         IN  IF Len(recent_alerts) > 0
             THEN [tornado |-> tornado_alerts,
                   thunderstorm |-> thunderstorm_alerts,
                   other_severe |-> other_severe_alerts,
                   moderate |-> moderate_alerts,
                   messages |->
                       (IF Len(tornado_alerts) > 0 THEN {"tornado_alert"} ELSE {})
                       \cup (IF Len(thunderstorm_alerts) > 0 THEN {"thunderstorm_warning"} ELSE {})
                       \cup (IF Len(other_severe_alerts) > 0 THEN {"other_severe"} ELSE {})
                       \cup (IF Len(moderate_alerts) > 0 THEN {"info"} ELSE {})]
             ELSE NoBanner
    ELSE [NoBanner EXCEPT !.messages = {"clear"}]

\* ------------------------------------------------------------------------
\* The banner as a function of its inputs: any sorted alerts dataframe,
\* rendered at any of the render times
\* ------------------------------------------------------------------------
RunnerIdle ==
    /\ mode = "main"
    /\ max_retries = 1
    /\ pc = "init"
    /\ in_try = FALSE
    /\ attempt = 0
    /\ invoked = 0
    /\ outcomes = <<>>
    /\ slept = <<>>
    /\ ret = "none"
    /\ log = <<>>
    /\ inFlight = 0
    /\ next_run = -1
    /\ occasions = 0
    /\ exitCode = -1
    /\ escaped = "none"
    /\ last_occasion = <<-1, -1>>

TriageInit ==
    /\ RunnerIdle
    /\ now \in RenderTimes
    /\ alerts_df \in AlertFrames
    /\ forecast_data = {}
    /\ alerts_data = [exists |-> TRUE, rows |-> alerts_df]
    /\ version = 0
    /\ cache_forecast = NoEntry
    /\ cache_alerts = NoEntrySeq
    /\ df = {}
    /\ banner = NoBanner
    /\ sel = NoSel
    /\ filtered_df = {}
    /\ error_shown = FALSE
    /\ reads = NoReads
    /\ passes = 0
    /\ wrote_since_pass = FALSE
    /\ display = NoDisplay
    /\ csv = <<>>

RenderBanner ==
    /\ passes = 0
    /\ banner' = Banner(alerts_df, now)
    /\ passes' = 1
    /\ UNCHANGED <<runnerVars, forecast_data, alerts_data, version,
                   cache_forecast, cache_alerts, df, alerts_df, sel,
                   filtered_df, error_shown, reads, wrote_since_pass,
                   display, csv>>

TriageNext == RenderBanner

TriageSpec == TriageInit /\ [][TriageNext]_vars

\* ------------------------------------------------------------------------
\* Vocabulary of the banner properties
\* ------------------------------------------------------------------------
Rendered == passes > 0 /\ ~error_shown

Indices(f, P(_)) == {i \in DOMAIN f : P(f[i])}

\* the rows of alerts_df extracted less than 24 hours before now
RecentIdx == {i \in DOMAIN alerts_df : now - alerts_df[i].extracted_at < 24 * 60}

\* the label has the word, in any letter case
HasWord(event, w) == \E i \in DOMAIN event : Lower(event[i]) = Lower(w)

HasPair(event, w1, w2) ==
    \E i \in 1..(Len(event) - 1) :
        Lower(event[i]) = Lower(w1) /\ Lower(event[i + 1]) = Lower(w2)

\* the subsequence of f at the index set I
Sub(f, I) == SelectSeq([i \in DOMAIN f |-> <<i, f[i]>>], LAMBDA p : p[1] \in I)

Rows(f, I) == [i \in DOMAIN Sub(f, I) |-> Sub(f, I)[i][2]]

\* ------------------------------------------------------------------------
\* C13: the tornado tier is exactly the rows extracted less than 24 hours ago
\* whose label contains "Tornado" (in any letter case, as the match ignores
\* case), and no row extracted 24 hours ago or earlier is in any tier.
\* ------------------------------------------------------------------------
C13_TornadoTier ==
    Rendered =>
      /\ banner.tornado =
           Rows(alerts_df, {i \in RecentIdx : HasWord(alerts_df[i].event, "Tornado")})
      /\ \A tier \in {banner.tornado, banner.thunderstorm, banner.other_severe,
                      banner.moderate} :
             \A k \in DOMAIN tier : now - tier[k].extracted_at < 24 * 60

C13_Witness ==
    /\ Rendered
    /\ Len(alerts_df) = 2
    /\ alerts_df[1].event = <<"Tornado", "Warning">>
    /\ alerts_df[2].event = <<"Tornado", "Watch">>
    /\ now - alerts_df[1].extracted_at = 60
    /\ now - alerts_df[2].extracted_at = 24 * 60
    /\ Len(banner.tornado) = 1

\* ------------------------------------------------------------------------
\* C14 (as stated): the informational count is the number of recent rows of
\* severity Moderate or Minor that are in none of the higher tiers; a recent
\* "Tornado Watch" of severity Moderate is not counted.
\* ------------------------------------------------------------------------
C14_InfoCountExcludesHigherTiers ==
    Rendered =>
      Len(banner.moderate) =
        Cardinality({i \in RecentIdx :
                       /\ alerts_df[i].severity \in {"Moderate", "Minor"}
                       /\ ~HasWord(alerts_df[i].event, "Tornado")
                       /\ ~HasPair(alerts_df[i].event, "Severe", "Thunderstorm")})

\* ------------------------------------------------------------------------
\* C15: the other-severe tier is exactly the recent rows of severity Extreme
\* or Severe whose label contains neither "Tornado" nor "Severe
\* Thunderstorm"; its message is shown exactly when it is not empty, and no
\* row of it is in the tornado or thunderstorm tier.
\* ------------------------------------------------------------------------
C15_OtherSevereTier ==
    Rendered =>
      /\ banner.other_severe =
           Rows(alerts_df,
                {i \in RecentIdx :
                   /\ alerts_df[i].severity \in {"Extreme", "Severe"}
                   /\ ~HasWord(alerts_df[i].event, "Tornado")
                   /\ ~HasPair(alerts_df[i].event, "Severe", "Thunderstorm")})
      /\ ("other_severe" \in banner.messages) <=> (Len(banner.other_severe) > 0)
      /\ \A k \in DOMAIN banner.other_severe :
             /\ \A j \in DOMAIN banner.tornado :
                    banner.tornado[j] # banner.other_severe[k]
             /\ \A j \in DOMAIN banner.thunderstorm :
                    banner.thunderstorm[j] # banner.other_severe[k]

C15_Witness ==
    /\ Rendered
    /\ Len(banner.other_severe) = 1
    /\ banner.other_severe[1].event = <<"Flood", "Watch">>
    /\ Len(banner.tornado) = 1
    /\ banner.tornado[1].severity = "Extreme"

\* ------------------------------------------------------------------------
\* C16 (as stated): a render pass with no alert row extracted within the last
\* 24 hours shows the clear-status indicator, whether the alerts relation is
\* empty or holds only older rows.
\* ------------------------------------------------------------------------
C16_ClearWhenNoneRecent ==
    (Rendered /\ RecentIdx = {}) => "clear" \in banner.messages

\* ------------------------------------------------------------------------
\* Forecast rows and the sidebar filters (lines 274-309)
\*
\* A forecast row is [city, date, temp_min, temp_max]; temperatures are in
\* tenths of a degree, dates are day numbers.
\* ------------------------------------------------------------------------
Cities == {"Austin", "Dallas"}

\* <<temp_min, temp_max>> of a row: a whole-degree and a fractional maximum
TempPairs == { <<750, 950>>, <<752, 957>> }

ForecastRows ==
    { [city |-> c, date |-> d, temp_min |-> tp[1], temp_max |-> tp[2]] :
        c \in Cities, d \in 1..MaxDate, tp \in TempPairs }

\* (city, date) identifies a row; the dashboard needs at least one row
ForecastTables ==
    { t \in SUBSET ForecastRows :
        /\ t # {}
        /\ \A r1, r2 \in t : (r1.city = r2.city /\ r1.date = r2.date) => r1 = r2 }

MinOf(S) == CHOOSE x \in S : \A y \in S : x <= y

MaxOf(S) == CHOOSE x \in S : \A y \in S : x >= y

\* int() of a temperature given in tenths: truncation toward zero
IntTrunc(x) == IF x >= 0 THEN x \div 10 ELSE -((-x) \div 10)

\* the ends and the default value of the slider (lines 288-293), in degrees
SliderBounds(d) ==
    << IntTrunc(MinOf({r.temp_min : r \in d})), IntTrunc(MaxOf({r.temp_max : r \in d})) >>

\* min_date and max_date (lines 278-279)
DateBounds(d) == << MinOf({r.date : r \in d}), MaxOf({r.date : r \in d}) >>

\* What the three widgets can return for the dataframe d: a city of the
\* list (line 274), a range or a single day within the date bounds (a
\* date_input being edited returns one date), and a slider range that is the
\* default or has one end moved by a degree
Selections(d) ==
    LET db == DateBounds(d)
        sb == SliderBounds(d)
    IN  { [city |-> c, dates |-> dr, temps |-> tr] :
            c \in {"All"} \cup {r.city : r \in d},
            dr \in { <<a, b>> : a \in db[1]..db[2], b \in db[1]..db[2] }
                     \cup { <<db[1]>> },
            tr \in { sb, <<sb[1] + 1, sb[2]>>, <<sb[1], sb[2] - 1>> } }

ValidSelection(s) ==
    /\ Len(s.dates) = 2 => s.dates[1] <= s.dates[2]
    /\ s.temps[1] <= s.temps[2]

\* lines 297-298
ByCity(d, s) == IF s.city # "All" THEN {r \in d : r.city = s.city} ELSE d

\* lines 300-304
ByDate(d, s) ==
    IF Len(s.dates) = 2
    THEN {r \in d : r.date >= s.dates[1] /\ r.date <= s.dates[2]}
    ELSE d

\* lines 306-309: temp_max against the slider's whole degrees
ByTemp(d, s) ==
    {r \in d : r.temp_max >= s.temps[1] * 10 /\ r.temp_max <= s.temps[2] * 10}

\* filtered_df (lines 296-309)
FilterRows(d, s) == ByTemp(ByDate(ByCity(d, s), s), s)

\* The filters as a function of their inputs: any forecast table, any
\* selection the widgets can return for it
FilterInit ==
    /\ RunnerIdle
    /\ now = 0
    /\ df \in ForecastTables
    /\ forecast_data = df
    /\ alerts_data = [exists |-> FALSE, rows |-> <<>>]
    /\ version = 0
    /\ cache_forecast = NoEntry
    /\ cache_alerts = NoEntrySeq
    /\ alerts_df = <<>>
    /\ banner = NoBanner
    /\ sel = NoSel
    /\ filtered_df = {}
    /\ error_shown = FALSE
    /\ reads = NoReads
    /\ passes = 0
    /\ wrote_since_pass = FALSE
    /\ display = NoDisplay
    /\ csv = <<>>

ApplyFilters ==
    /\ passes = 0
    /\ \E s \in Selections(df) :
         /\ ValidSelection(s)
         /\ sel' = s
         /\ filtered_df' = FilterRows(df, s)
    /\ passes' = 1
    /\ UNCHANGED <<runnerVars, forecast_data, alerts_data, version,
                   cache_forecast, cache_alerts, df, alerts_df, banner,
                   error_shown, reads, wrote_since_pass, display, csv>>

FilterNext == ApplyFilters

FilterSpec == FilterInit /\ [][FilterNext]_vars

\* ------------------------------------------------------------------------
\* C17 (as stated): with a city C and a date range [a, b] selected and the
\* temperature slider at its default, the filtered set is exactly the rows of
\* city C dated within [a, b], ends included.
\* ------------------------------------------------------------------------
C17_CityAndDateFilter ==
    ( /\ Rendered
      /\ sel.city # "All"
      /\ Len(sel.dates) = 2
      /\ sel.temps = SliderBounds(df) )
    => filtered_df =
         {r \in df : r.city = sel.city /\ sel.dates[1] <= r.date /\ r.date <= sel.dates[2]}

\* ========================================================================
\* The data table and the CSV export (lines 578-609)
\*
\* Text is a sequence of characters; a CSV text is a sequence of lines, a
\* line a sequence of fields.
\* ========================================================================
\* bound of this part
MaxExportDate == 6

\* columns of forecast_data followed here, in the order of the relation
Columns == <<"city", "date", "temp_min", "temp_max">>

\* the columns of the table when "Show all columns" is off (lines 588-589)
DisplayColumns == <<"city", "date", "temp_max", "temp_min">>

\* st.selectbox("Rows to display", [10, 25, 50, 100], index=1) (line 583)
RowsOptions == {10, 25, 50, 100}

DefaultRows == 25

\* ORDER BY city, date (line 83): cities in alphabetical order
CityOrder == <<"Austin", "Dallas">>

CityRank(c) == CHOOSE k \in DOMAIN CityOrder : CityOrder[k] = c

RowLess(r, q) ==
    \/ CityRank(r.city) < CityRank(q.city)
    \/ r.city = q.city /\ r.date < q.date

\* the rows of a dataframe in its row order
RECURSIVE InOrder(_)
InOrder(d) ==
    IF d = {}
    THEN <<>>
    ELSE LET m == CHOOSE r \in d : \A q \in d \ {r} : RowLess(r, q)
         IN  <<m>> \o InOrder(d \ {m})

\* forecast tables for the export: one or both cities over the first n
\* dates, with whole-degree or fractional temperatures, and the empty result
ExportTables ==
    { {} } \cup
    { { [city |-> c, date |-> dt, temp_min |-> tp[1], temp_max |-> tp[2]] :
          c \in cs, dt \in 1..n } :
        cs \in (SUBSET Cities) \ { {} }, n \in 1..MaxExportDate, tp \in TempPairs }

DigitChars == <<"0", "1", "2", "3", "4", "5", "6", "7", "8", "9">>

\* decimal text of a natural number
RECURSIVE FormatNat(_)
FormatNat(n) ==
    IF n < 10
    THEN <<DigitChars[n + 1]>>
    ELSE FormatNat(n \div 10) \o <<DigitChars[(n % 10) + 1]>>

Abs(x) == IF x < 0 THEN -x ELSE x

\* variant: floats are written without their fraction
FormatFloatWhole(x) ==
    (IF x < 0 THEN <<"-">> ELSE <<>>) \o FormatNat(Abs(x) \div 10) \o <<".", "0">>

\* to_csv writes a float as its shortest exact decimal: 95.7, 95.0
\* (x in tenths)
FormatFloat(x) ==
    (IF x < 0 THEN <<"-">> ELSE <<>>)
        \o FormatNat(Abs(x) \div 10) \o <<".">> \o FormatNat(Abs(x) % 10)

\* the field of row r in column col
Field(r, col) ==
    CASE col = "city" -> <<r.city>>
      [] col = "date" -> FormatNat(r.date)
      [] OTHER -> FormatFloat(r[col])

\* filtered_df.to_csv(index=False) (line 603): a header line naming every
\* column, then one line per row in row order
ToCsv(d) ==
    LET rows == InOrder(d)
    IN  << [k \in DOMAIN Columns |-> <<Columns[k]>>] >>
          \o [i \in DOMAIN rows |-> [k \in DOMAIN Columns |-> Field(rows[i], Columns[k])]]

\* reading the text back
DigitVal(ch) == CHOOSE k \in 0..9 : DigitChars[k + 1] = ch

RECURSIVE ParseNat(_)
ParseNat(t) ==
    IF t = <<>>
    THEN 0
    ELSE ParseNat(SubSeq(t, 1, Len(t) - 1)) * 10 + DigitVal(t[Len(t)])

\* a decimal with one fractional digit, in tenths
ParseFloat(t) ==
    LET neg == t[1] = "-"
        u == IF neg THEN Tail(t) ELSE t
        dot == CHOOSE k \in DOMAIN u : u[k] = "."
        v == ParseNat(SubSeq(u, 1, dot - 1)) * 10 + ParseNat(SubSeq(u, dot + 1, Len(u)))
    IN  IF neg THEN -v ELSE v

ColumnOf(header, name) == CHOOSE k \in DOMAIN header : header[k] = <<name>>

ParseLine(header, line) ==
    [city |-> line[ColumnOf(header, "city")][1],
     date |-> ParseNat(line[ColumnOf(header, "date")]),
     temp_min |-> ParseFloat(line[ColumnOf(header, "temp_min")]),
     temp_max |-> ParseFloat(line[ColumnOf(header, "temp_max")])]

ParseCsv(text) == {ParseLine(text[1], text[i]) : i \in 2..Len(text)}

\* the table shown (lines 585-595): the chosen columns of the first
\* rows_to_show rows, sorted by city and date
Display(d, show_all_columns, rows_to_show) ==
    LET rows == InOrder(d)
        head == SubSeq(rows, 1, IF rows_to_show < Len(rows) THEN rows_to_show ELSE Len(rows))
        cols == IF show_all_columns THEN Columns ELSE DisplayColumns
    IN  [show_all_columns |-> show_all_columns,
         rows_to_show |-> rows_to_show,
         rows |-> [i \in DOMAIN head |->
                     [c \in {cols[k] : k \in DOMAIN cols} |-> head[i][c]]]]

\* The table and the export as a function of their inputs: any filtered
\* forecast set, any choice of the two display options
ExportInit ==
    /\ RunnerIdle
    /\ now = 0
    /\ filtered_df \in ExportTables
    /\ df = filtered_df
    /\ forecast_data = filtered_df
    /\ alerts_data = [exists |-> FALSE, rows |-> <<>>]
    /\ version = 0
    /\ cache_forecast = NoEntry
    /\ cache_alerts = NoEntrySeq
    /\ alerts_df = <<>>
    /\ banner = NoBanner
    /\ sel = NoSel
    /\ error_shown = FALSE
    /\ reads = NoReads
    /\ passes = 0
    /\ wrote_since_pass = FALSE
    /\ display = NoDisplay
    /\ csv = <<>>

TableAndExport ==
    /\ passes = 0
    /\ \E show_all_columns \in BOOLEAN, rows_to_show \in RowsOptions :
         display' = Display(filtered_df, show_all_columns, rows_to_show)
    /\ csv' = ToCsv(filtered_df)
    /\ passes' = 1
    /\ UNCHANGED <<runnerVars, forecast_data, alerts_data, version,
                   cache_forecast, cache_alerts, df, alerts_df, banner, sel,
                   filtered_df, error_shown, reads, wrote_since_pass>>

ExportNext == TableAndExport

ExportSpec == ExportInit /\ [][ExportNext]_vars

\* ========================================================================
\* The render pass against the store: cached loads, read failures, and the
\* pipeline writing between passes
\* ========================================================================
\* bounds of this part
MaxWrites == 1
MaxPasses == 3
TickMinutes == 5
MaxDashTime == 10

\* store contents followed here: one-row forecast tables of the first date,
\* and alerts relations of at most one row
DashTables == { {r} : r \in {x \in ForecastRows : x.date = 1} }

DashAlertFrames ==
    {<<>>} \cup
    { <<r>> : r \in {x \in AlertRows :
                       /\ x.extracted_at = 0
                       /\ <<x.event, x.severity>> \in
                            { << <<"Tornado", "Warning">>, "Severe" >>,
                              << <<"Flood", "Watch">>, "Minor" >> }} }

DashAlertStores ==
    { [exists |-> FALSE, rows |-> <<>>] }
      \cup { [exists |-> TRUE, rows |-> f] : f \in DashAlertFrames }

\* the selections followed here: any city of the list, dates and temperature
\* left at their defaults
DashSelections(d) ==
    {s \in Selections(d) : s.dates = DateBounds(d) /\ s.temps = SliderBounds(d)}

\* variant: a cache entry never expires
CacheFreshForever(at, t, ttl) == TRUE

\* st.cache_data(ttl=...): an entry loaded at minute `at` is served at minute
\* t while it is younger than ttl seconds
CacheFresh(at, t, ttl) == (t - at) * 60 < ttl

\* variant: a cache hit hands out the stored object itself, so the edits of an
\* earlier pass are seen by the next one
ServeCachedShared(rows) == {[r EXCEPT !.temp_min = r.temp_min + 1] : r \in rows}

\* st.cache_data hands out a copy of the stored value
ServeCached(rows) == rows

\* variant: the query consumes what it reads
AfterSelectConsuming(rows) == {}

\* con.execute("SELECT ...") on the read_only connection (lines 77, 83, 93):
\* the relation after the query
AfterSelect(rows) == rows

\* load_forecast_data (lines 80-86): <<entry, cached, raised>>
LoadForecast(fails) ==
    IF cache_forecast.has /\ CacheFresh(cache_forecast.at, now, ForecastTtl)
    THEN <<cache_forecast, TRUE, FALSE>>
    ELSE IF fails
    THEN <<cache_forecast, FALSE, TRUE>>
    ELSE <<[has |-> TRUE, rows |-> forecast_data, at |-> now, ver |-> version,
            how |-> "query"], FALSE, FALSE>>

\* load_alerts_data (lines 89-98): the bare except turns any failure of the
\* query into an empty dataframe, which is cached like any other value
LoadAlerts(fails) ==
    IF cache_alerts.has /\ CacheFresh(cache_alerts.at, now, AlertsTtl)
    THEN <<cache_alerts, TRUE>>
    ELSE <<[has |-> TRUE,
            rows |-> IF alerts_data.exists /\ ~fails THEN alerts_data.rows ELSE <<>>,
            at |-> now, ver |-> version,
            how |-> IF ~alerts_data.exists THEN "absent"
                    ELSE IF fails THEN "raise" ELSE "query"], FALSE>>

DashInit ==
    /\ RunnerIdle
    /\ now = 0
    /\ forecast_data \in DashTables
    /\ alerts_data \in DashAlertStores
    /\ version = 0
    /\ cache_forecast = NoEntry
    /\ cache_alerts = NoEntrySeq
    /\ df = {}
    /\ alerts_df = <<>>
    /\ banner = NoBanner
    /\ sel = NoSel
    /\ filtered_df = {}
    /\ error_shown = FALSE
    /\ reads = NoReads
    /\ passes = 0
    /\ wrote_since_pass = FALSE
    /\ display = NoDisplay
    /\ csv = <<>>

\* One run of the dashboard script (lines 109-631).  f_fails / a_fails: the
\* forecast / alerts query raises if it is executed in this pass (a_fails: for
\* a reason other than the relation being absent).
RenderPass ==
    /\ passes < MaxPasses
    /\ passes' = passes + 1
    /\ wrote_since_pass' = FALSE
    /\ forecast_data' = AfterSelect(forecast_data)
    /\ \E f_fails \in BOOLEAN, a_fails \in BOOLEAN :
         LET f == LoadForecast(f_fails)
             a == LoadAlerts(a_fails)
         IN  IF f[3]
             THEN \* line 111 raised: the except clause shows the error
                  /\ error_shown' = TRUE
                  /\ df' = {}
                  /\ alerts_df' = <<>>
                  /\ banner' = NoBanner
                  /\ sel' = NoSel
                  /\ filtered_df' = {}
                  /\ display' = NoDisplay
                  /\ csv' = <<>>
                  /\ reads' = [NoReads EXCEPT !.at = now, !.f_how = "raise"]
                  /\ UNCHANGED <<cache_forecast, cache_alerts>>
             ELSE LET d == IF f[2] THEN ServeCached(f[1].rows) ELSE f[1].rows
                  IN  /\ error_shown' = FALSE
                      /\ cache_forecast' = f[1]
                      /\ cache_alerts' = a[1]
                      /\ df' = d
                      /\ alerts_df' = a[1].rows
                      /\ banner' = Banner(a[1].rows, now)
                      /\ \E s \in DashSelections(d) :
                           /\ sel' = s
                           /\ filtered_df' = FilterRows(d, s)
                           /\ display' = Display(FilterRows(d, s), FALSE, DefaultRows)
                           /\ csv' = ToCsv(FilterRows(d, s))
                           /\ reads' =
                                [at |-> now,
                                 f_cached |-> f[2], f_how |-> f[1].how,
                                 f_ver |-> f[1].ver, f_at |-> f[1].at,
                                 a_cached |-> a[2], a_how |-> a[1].how,
                                 a_ver |-> a[1].ver, a_at |-> a[1].at,
                                 repeat |-> /\ passes >= 1
                                            /\ ~error_shown
                                            /\ sel = s
                                            /\ reads.f_ver = version]
    /\ UNCHANGED <<runnerVars, alerts_data, version>>

\* A pipeline invocation of the runner completes and has written the store
\* (pipeline.run(), src/automated_weather_pipeline.py lines 93-94)
PipelineRun ==
    /\ version < MaxWrites
    /\ version' = version + 1
    /\ forecast_data' \in DashTables
    /\ alerts_data' \in {s \in DashAlertStores : s.exists}
    /\ wrote_since_pass' = TRUE
    /\ UNCHANGED <<runnerVars, cache_forecast, cache_alerts, df, alerts_df,
                   banner, sel, filtered_df, error_shown, reads, passes,
                   display, csv>>

\* time passes between passes
Tick ==
    /\ now < MaxDashTime
    /\ now' = now + TickMinutes
    /\ UNCHANGED <<runnerRest, dashVars>>

DashNext ==
    \/ RenderPass
    \/ PipelineRun
    \/ Tick

DashSpec == DashInit /\ [][DashNext]_vars

\* ------------------------------------------------------------------------
\* Vocabulary of the store properties
\* ------------------------------------------------------------------------
\* the step is a render pass
PassStep == passes' = passes + 1

\* what a successful query of alerts_data returns now
StoreAlerts == IF alerts_data.exists THEN alerts_data.rows ELSE <<>>

\* C12: a render pass leaves forecast_data and alerts_data as they were,
\* whether its loads succeed or fail and whatever is selected; a step that
\* changes either relation is a pipeline invocation of the runner.
C12_StoreReadOnly ==
    [][ /\ PassStep => (forecast_data' = forecast_data /\ alerts_data' = alerts_data)
        /\ (forecast_data' # forecast_data \/ alerts_data' # alerts_data)
             => version' = version + 1 ]_vars

\* a pass has loaded and shown the store and a later pass has failed to load
\* it, with the store still holding its rows
C12_Witness ==
    /\ passes >= 2
    /\ error_shown
    /\ cache_forecast.has
    /\ forecast_data # {}

C19_AlertsFailureSurfaced ==
    passes > 0
        => /\ (reads.a_how = "raise" /\ ~reads.a_cached) => error_shown
           /\ (reads.a_how = "absent" /\ ~reads.a_cached)
                => (~error_shown /\ alerts_df = <<>>)

\* C20 as stated: a pass that follows a pass with the same selections, no
\* pipeline run between the two, has the same filtered forecast set.
C20_SameSelectionsSameResult ==
    [][ ( /\ PassStep /\ passes >= 1
          /\ ~error_shown /\ ~error_shown'
          /\ sel' = sel
          /\ ~wrote_since_pass )
        => filtered_df' = filtered_df ]_vars

\* C20 amended: a pass that follows a pass with the same selections has the
\* same filtered forecast set when no pipeline run has completed since the
\* forecast read that the earlier pass showed.
C20_SameResultSinceRead ==
    [][ ( /\ PassStep /\ passes >= 1
          /\ ~error_shown /\ ~error_shown'
          /\ sel' = sel
          /\ reads.f_ver = version )
        => filtered_df' = filtered_df ]_vars

\* two such passes, the second one served from the cache and showing rows
C20_Witness ==
    /\ passes >= 2
    /\ Rendered
    /\ reads.repeat
    /\ reads.f_cached
    /\ filtered_df # {}

\* ========================================================================
\* The attempt sequence of an occasion and its sleeps
\* ========================================================================
\* the attempt numbers logged by the starts of l count 1, 2, 3, ...
StartsCountUp(l) ==
    \A i \in DOMAIN l :
        l[i][1] = "start" => l[i][2] = Cardinality({j \in 1..i : l[j][1] = "start"})

\* the attempts of the call that did not end it with success
FailedAttempts == {i \in DOMAIN outcomes : outcomes[i] # "ok"}

\* C22: within an occasion the attempt number starts at 1, grows by exactly 1
\* per attempt and never exceeds MAX_RETRIES; once the call has returned
\* (success or exhaustion) no further attempt of the occasion is made, and
\* the number goes back to 1 only with the next trigger firing or a new call.
C22_AttemptSequence ==
    [][ /\ attempt' <= max_retries
        /\ StartsCountUp(log')
        /\ attempt' # attempt
             => \/ attempt' = attempt + 1 /\ pc \in {"running", "sleeping"}
                \/ attempt' = 1 /\ attempt = 0 /\ pc \in {"init", "job"}
                \/ attempt' = 0 /\ pc = "job_done"
        /\ CallReturned
             => \/ invoked' = invoked /\ attempt' = attempt
                \/ pc = "job_done" /\ invoked' = 0 /\ attempt' = 0 ]_vars

\* the second occasion has run its own sequence 1, 2, 3 to exhaustion
C22_Witness ==
    /\ mode = "main"
    /\ occasions = 2
    /\ pc = "returned"
    /\ ret = "False"
    /\ max_retries = 3
    /\ attempt = 3
    /\ invoked = 3

\* C23: the call is never in its retry sleep after its final attempt nor
\* after an attempt that succeeded, and the sleeps of one call number at most
\* MAX_RETRIES - 1 and at most the attempts that failed (an attempt whose
\* summary raised is a failed attempt, as the handler logs it).
C23_SleepsBounded ==
    /\ pc = "sleeping"
         => /\ attempt < max_retries
            /\ ret = "none"
            /\ outcomes # <<>>
            /\ outcomes[Len(outcomes)] # "ok"
    /\ Len(slept) <= max_retries - 1
    /\ Len(slept) <= Cardinality(FailedAttempts)
    /\ (CallReturned /\ ret = "True") => Len(slept) = Len(outcomes) - 1 - Cardinality({i \in FailedAttempts : outcomes[i] = "empty"})

\* a call that failed on every attempt has slept MAX_RETRIES - 1 times
C23_Witness ==
    /\ pc = "returned"
    /\ ret = "False"
    /\ max_retries = 3
    /\ Len(slept) = 2
    /\ Len(outcomes) = 3

\* ========================================================================
\* Default filters and the coverage of the banner
\* ========================================================================
\* C24 (as stated): with the city left at "All", the date range at the
\* minimum and maximum date and the slider at its default ends, the filtered
\* forecast set is the whole forecast table, for every table.
C24_DefaultsKeepEveryRow ==
    ( /\ Rendered
      /\ sel.city = "All"
      /\ sel.dates = DateBounds(df)
      /\ sel.temps = SliderBounds(df) )
    => filtered_df = df

\* row i of the alerts dataframe is in one of the four tiers of the banner
InSomeTier(i) ==
    \E tier \in {banner.tornado, banner.thunderstorm, banner.other_severe,
                 banner.moderate} :
        \E k \in DOMAIN tier : tier[k] = alerts_df[i]

\* C25 (as stated): every row extracted within the last 24 hours is in at
\* least one of the four tiers, whatever its event label and severity, and
\* the banner shows at least one message whenever such rows exist.
C25_EveryRecentRowSurfaced ==
    Rendered =>
      /\ \A i \in RecentIdx : InSomeTier(i)
      /\ RecentIdx # {} => banner.messages # {}

\* ========================================================================
\* The CSV export
\* ========================================================================
\* C21: the text offered for download holds a header naming every column and
\* one line for each filtered row, whatever the "Show all columns" and "Rows
\* to display" choices are, and reading it back gives exactly the filtered
\* rows with their field values.
C21_ExportIsFilteredRows ==
    Rendered =>
      /\ Len(csv) = Cardinality(filtered_df) + 1
      /\ csv[1] = [k \in DOMAIN Columns |-> <<Columns[k]>>]
      /\ ParseCsv(csv) = filtered_df
      /\ {<<r.city, r.date>> : r \in ParseCsv(csv)} = {<<r.city, r.date>> : r \in filtered_df}

\* twelve filtered rows with fractional temperatures, of which the table
\* shows ten and a subset of the columns; the export holds all twelve
C21_Witness ==
    /\ Rendered
    /\ Cardinality(filtered_df) = 12
    /\ \E r \in filtered_df : r.temp_max = 957
    /\ ~display.show_all_columns
    /\ display.rows_to_show = 10
    /\ Len(display.rows) = 10
    /\ Len(csv) = 13
====
